---- MODULE Spec2Model ----
(***************************************************************************)
(* Model of core::Logger, core::LogStream and the suppression macros of    *)
(* include/Logger.h and src/Logger.cpp.                                    *)
(*                                                                         *)
(* The specifications share the Logger's fields and its two outputs:       *)
(*   Spec        threads calling log() and the setters, one step per       *)
(*               statement of log() between lock and unlock;               *)
(*   SpecApi     one thread, one action per public method call;            *)
(*   SpecReentrant  the threads of Spec with a callback that calls back     *)
(*               into the Logger;                                          *)
(*   SpecStream  one thread creating, filling, moving and destroying       *)
(*               LogStream objects;                                        *)
(*   SpecMacros  one thread visiting one call site of a suppression macro; *)
(*   SpecFiltered  the once and throttle sites of SpecMacros, every visit  *)
(*               with a non-empty message;                                 *)
(*   SpecOnceRace  threads racing on the flag of one LOG_*_ONCE site;      *)
(*   SpecGlobal  threads using GlobalLogger::instance() and init(), with   *)
(*               the Logger objects it creates and destroys kept in a heap.*)
(*                                                                         *)
(* A LogEntry is modelled by its header.seq, level and message. The wall   *)
(* clock stamp and node_name are set once per entry and read by no         *)
(* decision of the code, so they are left out. A console line is modelled  *)
(* by the entry it is rendered from.                                       *)
(***************************************************************************)
EXTENDS Integers, Sequences, FiniteSets, TLC

\* ------------------------------------------------------------------ bounds
\* Accepted log() calls per behaviour of Spec and SpecApi.
MaxCalls == 3
\* LogStream objects per behaviour of SpecStream.
MaxStreams == 3
\* Characters streamed into one LogStream object.
MaxAppends == 1
\* Visits to the call site per behaviour of SpecMacros.
MaxVisits == 6
\* Visits to a throttled call site per behaviour of SpecMacros.
MaxThrottleVisits == 4
\* Last tick of the millisecond clock in SpecMacros.
MaxTime == 6
\* GlobalLogger::init calls per behaviour of SpecGlobal.
MaxInits == 2
\* Streams constructed on the global Logger per behaviour of SpecGlobal.
MaxGlobalCalls == 2

\* --------------------------------------------------------------- constants
DEBUG == 0
INFO == 1
WARN == 2
ERROR == 3
FATAL == 4
LogLevels == {DEBUG, INFO, WARN, ERROR, FATAL}

\* A LogPublishCallback is either empty (nullptr) or a callable.
NullCallback == "nullptr"
Callbacks == {"cb"}

\* std::mutex: unowned, or owned by one thread.
NoOwner == 0
Threads == {1, 2}

\* Message texts: the empty string and a one-character string.
Messages == {<<>>, <<"m">>}

VARIABLES
    \* Logger fields
    min_level, local_output, remote_output, publish_callback, seq, mutex,
    \* what left the Logger: lines written to std::cerr, entries handed to the callback
    console, published,
    \* every LogEntry createEntry() built, in creation order
    records,
    \* Spec: per thread, the statement it is at and the locals of its log() call
    pc, call,
    \* SpecApi: the last public method call and what it wrote
    last,
    \* SpecStream: the LogStream objects, and for each stream that was
    \* constructed (not moved into) what happened to it through its moves
    streams, lineage,
    \* SpecMacros: the call site, its statics, the clock and the visits so far
    site, LOG_ONCE_FLAG, LOG_COUNTER, LOG_PREV, LOG_THROTTLE, now, visits,
    \* SpecGlobal: the Logger objects ever made, GlobalLogger's statics, per
    \* thread the reference and stream it holds, the init calls made, and the
    \* Logger methods that ran on a destroyed Logger
    loggers, logger_, initialized_, glog, inits, danglingUse

loggerVars == <<min_level, local_output, remote_output, publish_callback, seq, mutex>>
outputVars == <<console, published, records>>
threadVars == <<pc, call>>
streamVars == <<streams, lineage>>
macroVars == <<site, LOG_ONCE_FLAG, LOG_COUNTER, LOG_PREV, LOG_THROTTLE, now, visits>>
globalVars == <<loggers, logger_, initialized_, glog, inits, danglingUse>>
vars == <<loggerVars, outputVars, threadVars, last, streamVars, macroVars, globalVars>>

\* ------------------------------------------------------------ Logger pieces

\* Logger::Logger: min DEBUG, local on, remote on iff a callback was given, seq 0.
LoggerInit(callback) ==
    /\ min_level = DEBUG
    /\ local_output = TRUE
    /\ remote_output = (callback # NullCallback)
    /\ publish_callback = callback
    /\ seq = 0
    /\ mutex = NoOwner

OutputInit ==
    /\ console = <<>>
    /\ published = <<>>
    /\ records = <<>>

\* toProtoLevel: the protobuf enum has the same ordinals.
toProtoLevel(level) == level

\* log(): "if (level < min_level_) return;" -- TRUE when the call goes on.
passesFilterStrict(level, min) == level > min
passesFilter(level, min) == ~(level < min)

\* seq_++: the value stored back. seq_ is a uint32_t and wraps to 0 after
\* 4294967295; every counter value reached here is at most MaxCalls, far
\* below the wrap, which lies beyond the integers TLC computes with.
nextSeq(s) == s + 1

\* createEntry: the entry built, with header.seq the counter's value before
\* the increment, and the counter afterwards (header->set_seq(seq_++)).
createEntryPreIncrement(level, message) ==
    [entry |-> [seq |-> nextSeq(seq), level |-> toProtoLevel(level), message |-> message],
     seq_ |-> nextSeq(seq)]
createEntryOnlyWhenOutput(level, message) ==
    [entry |-> [seq |-> seq, level |-> toProtoLevel(level), message |-> message],
     seq_ |-> IF local_output \/ remote_output THEN nextSeq(seq) ELSE seq]
createEntry(level, message) ==
    [entry |-> [seq |-> seq, level |-> toProtoLevel(level), message |-> message],
     seq_ |-> nextSeq(seq)]

\* log(): "if (local_output_) outputLocal(entry);" -- std::cerr afterwards.
outputLocal(entry) ==
    IF local_output THEN Append(console, entry) ELSE console

\* Logger::publish: "if (publish_callback_) publish_callback_(entry);"
publish(entry) ==
    IF publish_callback # NullCallback THEN Append(published, entry) ELSE published

\* log(): "if (remote_output_ && publish_callback_) publish(entry);"
publishRemoteIgnoringFlag(entry) == publish(entry)
publishRemote(entry) ==
    IF remote_output /\ publish_callback # NullCallback
    THEN publish(entry) ELSE published

\* setPublishCallback: "remote_output_ = (callback != nullptr);"
remoteAfterSetCallbackOnlyOff(callback) == remote_output /\ callback # NullCallback
remoteAfterSetCallback(callback) == callback # NullCallback

\* Logger::log run by one thread with nobody else on the Logger: the filter,
\* then under the lock createEntry, console, callback.
log(level, message) ==
    IF ~passesFilter(level, min_level)
    THEN UNCHANGED <<seq, outputVars>>
    ELSE LET created == createEntry(level, message) IN
         /\ seq' = created.seq_
         /\ records' = Append(records, created.entry)
         /\ console' = outputLocal(created.entry)
         /\ published' = publishRemote(created.entry)

\* Number of lines / callback invocations a step added.
Added(before, after) == Len(after) - Len(before)

\* ------------------------------------------------- idle parts of each spec
\* The locals of a thread that is not inside log().
NoCall == [level |-> DEBUG, message |-> <<>>, entry |-> <<>>, lines |-> 0, invoked |-> 0]
ThreadsIdle ==
    /\ pc = [t \in Threads |-> "idle"]
    /\ call = [t \in Threads |-> NoCall]

NoLast == [op |-> "none", level |-> DEBUG, accepted |-> FALSE, seq |-> 0,
           lines |-> 0, invoked |-> 0, enabled |-> FALSE, callback |-> NullCallback]

StreamIds == 1..MaxStreams
\* A LogStream object: level_, active_, ss_, whether it is yet to be created,
\* alive or destroyed, and the constructed stream it descends from by moves.
NoStream == [state |-> "unborn", level |-> DEBUG, active |-> FALSE, ss |-> <<>>,
             origin |-> 0]
\* A constructed stream: the object now holding it, whether it was active at
\* construction, whether a non-empty value was streamed into its holder, and
\* the Logger::log calls made by its objects.
NoLineage == [owner |-> 0, active |-> FALSE, appended |-> FALSE, logCalls |-> 0]
StreamsIdle ==
    /\ streams = [s \in StreamIds |-> NoStream]
    /\ lineage = [s \in StreamIds |-> NoLineage]

\* A call site: the macro used there with its level, n and interval arguments.
NoSite == [macro |-> "none", level |-> DEBUG, n |-> 1, interval_ms |-> 1]
\* The function-local statics of the macros before the first visit: flag
\* false, counter 0, prev_state false, last_time not yet initialised.
StaticsInit ==
    /\ LOG_ONCE_FLAG = FALSE
    /\ LOG_COUNTER = 0
    /\ LOG_PREV = FALSE
    /\ LOG_THROTTLE = [seeded |-> FALSE, last_time |-> 0]
MacrosIdle ==
    /\ site = NoSite
    /\ StaticsInit
    /\ now = 0
    /\ visits = <<>>

\* The Logger objects of the heap: none made yet. A Logger is its fields and
\* whether it is yet to be made, alive or destroyed.
LoggerIds == 1..(MaxInits + 1)
NullLogger == 0
NoLogger == [state |-> "free", node_name |-> "", min_level |-> DEBUG,
             local_output |-> FALSE, remote_output |-> FALSE,
             publish_callback |-> NullCallback, seq |-> 0]
\* What a thread holds of the global Logger: nothing, a Logger& from
\* instance(), or a LogStream made on it.
NoHold == [pc |-> "idle", ref |-> NullLogger, level |-> DEBUG, active |-> FALSE]
\* GlobalLogger's statics: logger_ empty, initialized_ false.
GlobalIdle ==
    /\ loggers = [id \in LoggerIds |-> NoLogger]
    /\ logger_ = NullLogger
    /\ initialized_ = FALSE
    /\ glog = [t \in Threads |-> NoHold]
    /\ inits = <<>>
    /\ danglingUse = {}

\* ================================================================= SpecApi
\* One thread; each action is one public method call from entry to return.

InitApi ==
    /\ \E callback \in Callbacks \cup {NullCallback} : LoggerInit(callback)
    /\ OutputInit
    /\ ThreadsIdle
    /\ last = NoLast
    /\ StreamsIdle
    /\ MacrosIdle
    /\ GlobalIdle

\* Logger::log does not look at the text: one message stands for all.
ApiMessages == {<<"m">>}

\* Levels log() is called with: the lowest, a middle and the highest one.
\* setMinLevel ranges over all five.
ApiLevels == {DEBUG, WARN, FATAL}

ApiFrame == UNCHANGED <<threadVars, streamVars, macroVars, globalVars>>

\* Logger::log(level, message), also debug/info/warn/error/fatal.
ApiLog(level, message) ==
    /\ seq < MaxCalls
    /\ log(level, message)
    /\ last' = [NoLast EXCEPT !.op = "log", !.level = level,
                !.accepted = passesFilter(level, min_level), !.seq = seq,
                !.lines = Added(console, console'),
                !.invoked = Added(published, published')]
    /\ UNCHANGED <<min_level, local_output, remote_output, publish_callback, mutex>>
    /\ ApiFrame

ApiSetMinLevel(level) ==
    /\ min_level' = level
    /\ last' = [NoLast EXCEPT !.op = "set"]
    /\ UNCHANGED <<local_output, remote_output, publish_callback, seq, mutex, outputVars>>
    /\ ApiFrame

ApiSetLocalOutput(enabled) ==
    /\ local_output' = enabled
    /\ last' = [NoLast EXCEPT !.op = "set"]
    /\ UNCHANGED <<min_level, remote_output, publish_callback, seq, mutex, outputVars>>
    /\ ApiFrame

ApiSetRemoteOutput(enabled) ==
    /\ remote_output' = enabled
    /\ last' = [NoLast EXCEPT !.op = "setRemoteOutput", !.enabled = enabled]
    /\ UNCHANGED <<min_level, local_output, publish_callback, seq, mutex, outputVars>>
    /\ ApiFrame

ApiSetPublishCallback(callback) ==
    /\ publish_callback' = callback
    /\ remote_output' = remoteAfterSetCallback(callback)
    /\ last' = [NoLast EXCEPT !.op = "setPublishCallback", !.callback = callback]
    /\ UNCHANGED <<min_level, local_output, seq, mutex, outputVars>>
    /\ ApiFrame

NextApi ==
    \/ \E level \in ApiLevels, message \in ApiMessages : ApiLog(level, message)
    \/ \E level \in LogLevels : ApiSetMinLevel(level)
    \/ \E enabled \in BOOLEAN : ApiSetLocalOutput(enabled)
    \/ \E enabled \in BOOLEAN : ApiSetRemoteOutput(enabled)
    \/ \E callback \in Callbacks \cup {NullCallback} : ApiSetPublishCallback(callback)

SpecApi == InitApi /\ [][NextApi]_vars

\* The entries of a sequence of entries, as a set.
Range(entries) == {entries[i] : i \in 1..Len(entries)}

\* C1: with local and remote output enabled and a callback set, a log() call
\* below the min level set by the last setMinLevel writes no console line and
\* invokes no callback, and a log() call at or above it writes exactly one
\* console line and invokes the callback exactly once.
C1_FilterDecidesOutput ==
    (last.op = "log" /\ local_output /\ remote_output /\ publish_callback # NullCallback)
        => IF last.level < min_level
           THEN last.lines = 0 /\ last.invoked = 0
           ELSE last.lines = 1 /\ last.invoked = 1

\* Reached: min level WARN, a WARN record written and published with
\* nothing lost, and the last call, log(DEBUG), dropped with both outputs on.
C1_Witness ==
    /\ min_level = WARN
    /\ local_output /\ remote_output /\ publish_callback # NullCallback
    /\ last.op = "log" /\ last.level = DEBUG /\ last.lines = 0 /\ last.invoked = 0
    /\ Len(records) = 1 /\ records[1].level = WARN
    /\ console = records /\ published = records

\* C2: the records of the accepted log() calls on a fresh Logger carry the
\* sequence numbers 0, 1, ..., N-1 in call order, whatever their levels.
C2_SequenceFromZero ==
    \A i \in 1..Len(records) : records[i].seq = i - 1

\* Reached: MaxCalls accepted calls at more than one level.
C2_Witness ==
    /\ Len(records) = MaxCalls
    /\ \E i, j \in 1..Len(records) : records[i].level # records[j].level

\* C10: an accepted log() call made with local and remote output both
\* disabled advances the sequence counter by exactly one, writes no console
\* line and invokes no callback; and every line on the console carries the
\* number of accepted calls made before it, silent ones included.
C10_SilentCallsAdvanceSeq ==
    /\ (last.op = "log" /\ last.accepted /\ ~local_output /\ ~remote_output)
           => last.lines = 0 /\ last.invoked = 0 /\ seq = last.seq + 1
    /\ \A i \in 1..Len(console) :
           /\ console[i].seq + 1 \in 1..Len(records)
           /\ records[console[i].seq + 1] = console[i]
    /\ seq = Len(records)

\* Reached: a record that went to neither output, followed, after local
\* output was enabled again, by a record on the console.
C10_Witness ==
    /\ Len(records) >= 2
    /\ records[1] \notin Range(console) \cup Range(published)
    /\ last.op = "log" /\ last.lines = 1
    /\ console # <<>> /\ console[Len(console)] = records[Len(records)]
    /\ console[Len(console)].seq = Len(records) - 1

\* C11: right after setPublishCallback(cb) the stored callback is cb and
\* remote output is on exactly if cb is not null, whatever the flag was
\* before; setRemoteOutput(b) sets the flag to b and leaves the stored
\* callback as it was.
C11_CallbackSetsRemoteFlag ==
    /\ [](last.op = "setPublishCallback"
            => /\ publish_callback = last.callback
               /\ remote_output = (last.callback # NullCallback))
    /\ [][last'.op = "setRemoteOutput"
            => /\ remote_output' = last'.enabled
               /\ publish_callback' = publish_callback]_vars

\* Reached: a record was made while nothing was published, and a later
\* setPublishCallback with a callback has turned remote output on.
C11_Witness ==
    /\ last.op = "setPublishCallback" /\ last.callback # NullCallback
    /\ remote_output
    /\ Len(records) > Len(published)

\* ==================================================================== Spec
\* Threads call log() and the setters on one Logger. log() is one step for
\* the unlocked filter and one step per statement between lock and unlock.

Init ==
    /\ \E callback \in Callbacks \cup {NullCallback} : LoggerInit(callback)
    /\ OutputInit
    /\ ThreadsIdle
    /\ last = NoLast
    /\ StreamsIdle
    /\ MacrosIdle
    /\ GlobalIdle

\* Levels the threads log at: each can pass and can be dropped, depending on
\* the min level, which ranges over all five.
ThreadLevels == {INFO, ERROR}

ThreadFrame == UNCHANGED <<last, streamVars, macroVars, globalVars>>

\* std::lock_guard<std::mutex> lock(mutex_) returns once nobody owns the mutex.
lockAvailableAlways(m) == TRUE
lockAvailable(m) == m = NoOwner

\* Threads that passed the filter and have not built their entry yet.
Pending == {t \in Threads : pc[t] \in {"lock", "create"}}

\* log(), line 141: the filter, read without the lock. A call below the
\* min level returns at once. The read races with setMinLevel's write of the
\* same int: it yields the value before or after the write, which is this
\* step taken before or after the setter's.
LogCheckLocked(t, level, message) ==
    /\ pc[t] = "idle"
    /\ lockAvailable(mutex)
    /\ IF passesFilter(level, min_level)
       THEN /\ Len(records) + Cardinality(Pending) < MaxCalls
            /\ call' = [call EXCEPT ![t] = [NoCall EXCEPT !.level = level,
                                                          !.message = message]]
            /\ pc' = [pc EXCEPT ![t] = "lock"]
       ELSE UNCHANGED <<pc, call>>
    /\ UNCHANGED <<loggerVars, outputVars>>
    /\ ThreadFrame
LogCheck(t, level, message) ==
    /\ pc[t] = "idle"
    /\ IF passesFilter(level, min_level)
       THEN /\ Len(records) + Cardinality(Pending) < MaxCalls
            /\ call' = [call EXCEPT ![t] = [NoCall EXCEPT !.level = level,
                                                          !.message = message]]
            /\ pc' = [pc EXCEPT ![t] = "lock"]
       ELSE UNCHANGED <<pc, call>>
    /\ UNCHANGED <<loggerVars, outputVars>>
    /\ ThreadFrame

\* log(), line 143: take the mutex.
LogLock(t) ==
    /\ pc[t] = "lock"
    /\ lockAvailable(mutex)
    /\ mutex' = t
    /\ pc' = [pc EXCEPT ![t] = "create"]
    /\ UNCHANGED <<min_level, local_output, remote_output, publish_callback, seq,
                   outputVars, call>>
    /\ ThreadFrame

\* log(), line 145: createEntry.
LogCreateEntry(t) ==
    /\ pc[t] = "create"
    /\ LET created == createEntry(call[t].level, call[t].message) IN
         /\ seq' = created.seq_
         /\ records' = Append(records, created.entry)
         /\ call' = [call EXCEPT ![t].entry = created.entry]
    /\ pc' = [pc EXCEPT ![t] = "local"]
    /\ UNCHANGED <<min_level, local_output, remote_output, publish_callback, mutex,
                   console, published>>
    /\ ThreadFrame

\* log(), lines 148-150: the console.
LogOutputLocal(t) ==
    /\ pc[t] = "local"
    /\ console' = outputLocal(call[t].entry)
    /\ call' = [call EXCEPT ![t].lines = @ + Added(console, console')]
    /\ pc' = [pc EXCEPT ![t] = "remote"]
    /\ UNCHANGED <<loggerVars, published, records>>
    /\ ThreadFrame

\* What an invocation of the callback ends in: it returns, or it throws.
CallbackOutcomes == {"returns", "throws"}

\* log(), lines 153-155: the callback, run to its end inside this step.
\* log() and publish() have no try block: an exception the callback throws
\* leaves log() through the lock_guard's destructor.
LogPublish(t) ==
    /\ pc[t] = "remote"
    /\ published' = publishRemote(call[t].entry)
    /\ call' = [call EXCEPT ![t].invoked = @ + Added(published, published')]
    /\ \E outcome \in CallbackOutcomes :
          pc' = [pc EXCEPT ![t] = IF outcome = "throws" /\ published' # published
                                  THEN "unwind" ELSE "unlock"]
    /\ UNCHANGED <<loggerVars, console, records>>
    /\ ThreadFrame

\* The mutex after the lock_guard's destructor ran during stack unwinding.
mutexLeakedByUnwind(m) == m
mutexAfterUnwind(m) == NoOwner

\* The exception leaves log(): the lock_guard releases the mutex and the
\* exception is in log()'s caller.
LogUnwind(t) ==
    /\ pc[t] = "unwind"
    /\ mutex' = mutexAfterUnwind(mutex)
    /\ pc' = [pc EXCEPT ![t] = "threw"]
    /\ UNCHANGED <<min_level, local_output, remote_output, publish_callback, seq,
                   outputVars, call>>
    /\ ThreadFrame

\* The caller handles the exception and goes on.
LogCaught(t) ==
    /\ pc[t] = "threw"
    /\ pc' = [pc EXCEPT ![t] = "idle"]
    /\ call' = [call EXCEPT ![t] = NoCall]
    /\ UNCHANGED <<loggerVars, outputVars>>
    /\ ThreadFrame

\* log(), line 156: the lock_guard releases the mutex and log() returns.
LogUnlock(t) ==
    /\ pc[t] = "unlock"
    /\ mutex' = NoOwner
    /\ pc' = [pc EXCEPT ![t] = "idle"]
    /\ call' = [call EXCEPT ![t] = NoCall]
    /\ UNCHANGED <<min_level, local_output, remote_output, publish_callback, seq,
                   outputVars>>
    /\ ThreadFrame

\* The setters: lock, assign, unlock. Nothing can be seen between the three,
\* so each is one step, taken when the mutex is free.
SetMinLevel(t, level) ==
    /\ pc[t] = "idle"
    /\ lockAvailable(mutex)
    /\ min_level' = level
    /\ UNCHANGED <<local_output, remote_output, publish_callback, seq, mutex,
                   outputVars, threadVars>>
    /\ ThreadFrame

SetLocalOutput(t, enabled) ==
    /\ pc[t] = "idle"
    /\ lockAvailable(mutex)
    /\ local_output' = enabled
    /\ UNCHANGED <<min_level, remote_output, publish_callback, seq, mutex,
                   outputVars, threadVars>>
    /\ ThreadFrame

SetRemoteOutput(t, enabled) ==
    /\ pc[t] = "idle"
    /\ lockAvailable(mutex)
    /\ remote_output' = enabled
    /\ UNCHANGED <<min_level, local_output, publish_callback, seq, mutex,
                   outputVars, threadVars>>
    /\ ThreadFrame

SetPublishCallback(t, callback) ==
    /\ pc[t] = "idle"
    /\ lockAvailable(mutex)
    /\ publish_callback' = callback
    /\ remote_output' = remoteAfterSetCallback(callback)
    /\ UNCHANGED <<min_level, local_output, seq, mutex, outputVars, threadVars>>
    /\ ThreadFrame

Next ==
    \E t \in Threads :
        \/ \E level \in ThreadLevels, message \in ApiMessages : LogCheck(t, level, message)
        \/ LogLock(t)
        \/ LogCreateEntry(t)
        \/ LogOutputLocal(t)
        \/ LogPublish(t)
        \/ LogUnlock(t)
        \/ LogUnwind(t)
        \/ LogCaught(t)
        \/ \E level \in LogLevels : SetMinLevel(t, level)
        \/ \E enabled \in BOOLEAN : SetLocalOutput(t, enabled)
        \/ \E enabled \in BOOLEAN : SetRemoteOutput(t, enabled)
        \/ \E callback \in Callbacks \cup {NullCallback} : SetPublishCallback(t, callback)

Spec == Init /\ [][Next]_vars

\* Threads between lock and unlock of log().
InCritical == {t \in Threads : pc[t] \in {"create", "local", "remote", "unlock", "unwind"}}

\* The sequence numbers of a sequence of entries strictly increase.
Increasing(entries) ==
    \A i, j \in 1..Len(entries) : i < j => entries[i].seq < entries[j].seq

\* C3: with threads calling log() concurrently, at most one thread is between
\* lock and unlock and it owns the mutex, no two records share a sequence
\* number, and the records reach the console and the callback in strictly
\* increasing sequence order.
C3_OneCriticalSection ==
    /\ \A t, u \in InCritical : t = u
    /\ \A t \in InCritical : mutex = t
    /\ \A i, j \in 1..Len(records) : i # j => records[i].seq # records[j].seq
    /\ Increasing(console)
    /\ Increasing(published)

\* Reached: one thread waits for the mutex while the other, which holds it,
\* has written the second console line, one record having been published.
C3_Witness ==
    /\ pc[1] = "lock" /\ pc[2] = "remote" /\ mutex = 2
    /\ Len(console) = 2 /\ Len(published) = 1

\* C4: when an accepted log() call has run its dispatch and is about to
\* release the mutex and return, it has invoked the callback exactly once if
\* remote output is enabled and a callback is set, and not at all otherwise;
\* it can then return; no call ever invokes the callback more than once.
C4_CallbackOncePerCall ==
    \A t \in Threads :
        /\ call[t].invoked \in {0, 1}
        /\ pc[t] = "unlock" =>
              /\ call[t].invoked =
                    IF remote_output /\ publish_callback # NullCallback THEN 1 ELSE 0
              /\ ENABLED LogUnlock(t)
        /\ pc[t] = "unwind" => call[t].invoked = 1

\* Reached: an earlier call invoked the callback once, and thread 2 ends a
\* call made with remote output enabled and no callback set.
C4_Witness ==
    /\ Len(records) = 2 /\ Len(published) = 1
    /\ pc[2] = "unlock" /\ call[2].invoked = 0
    /\ remote_output /\ publish_callback = NullCallback

\* C14: when the callback throws inside log(), the exception leaves log()
\* and reaches its caller with the callback invoked exactly once for that
\* record; the mutex is released on the way, so that the setters and a
\* waiting log() can take it; and the record's sequence number stays below
\* the counter, every record having the number of its position.
C14_CallbackThrowPropagates ==
    /\ \A t \in Threads :
          /\ pc[t] \in {"unwind", "threw"}
                => /\ call[t].invoked = 1
                   /\ call[t].entry.seq < seq
          /\ pc[t] = "unwind" => ENABLED LogUnwind(t)
          /\ pc[t] = "threw"
                => /\ mutex # t
                   /\ ENABLED LogCaught(t)
                   /\ \A u \in Threads : pc[u] = "lock" /\ mutex = NoOwner
                                              => ENABLED LogLock(u)
    /\ \A i \in 1..Len(records) : records[i].seq = i - 1

\* Reached: thread 1's call threw on record 0 and the exception is in its
\* caller; thread 2 has since taken the lock and published record 1.
C14_Witness ==
    /\ pc[1] = "threw" /\ call[1].entry.seq = 0
    /\ pc[2] = "unlock" /\ call[2].entry.seq = 1 /\ call[2].invoked = 1
    /\ Len(published) = 2

\* C16: a log() call below the min level can always be made and returns,
\* whoever holds the mutex, and such a call changes nothing -- no field of
\* the Logger, no output, not the mutex.
C16_FilteredCallNeedsNoLock ==
    \A t \in Threads, level \in ThreadLevels :
        (pc[t] = "idle" /\ level < min_level)
            => /\ ENABLED LogCheck(t, level, <<"m">>)
               /\ ~ENABLED (LogCheck(t, level, <<"m">>) /\ vars' # vars)

\* Reached: thread 2 holds the mutex inside the callback step, and thread 1
\* is free to make a call below the min level.
C16_Witness ==
    /\ pc[2] = "remote" /\ mutex = 2
    /\ remote_output /\ publish_callback # NullCallback
    /\ pc[1] = "idle" /\ min_level > INFO
    /\ ENABLED LogCheck(1, INFO, <<"m">>)

\* =========================================================== SpecReentrant
\* The threads of Spec with a publish callback that calls back into the
\* Logger it was invoked from: log() at some level, or one of the setters.
\* Every such call starts with std::lock_guard<std::mutex> lock(mutex_), on
\* a mutex the calling thread already owns. The C++ standard leaves that
\* undefined; a std::mutex is a default pthread mutex where this code builds
\* (it includes <sys/time.h>), on which the second lock waits for the first
\* to be released.
ReentrantCallbacks ==
    {"cb_log", "cb_setMinLevel", "cb_setLocalOutput", "cb_setRemoteOutput",
     "cb_setPublishCallback"}

InitReentrant ==
    /\ \E callback \in ReentrantCallbacks : LoggerInit(callback)
    /\ OutputInit
    /\ ThreadsIdle
    /\ last = NoLast
    /\ StreamsIdle
    /\ MacrosIdle
    /\ GlobalIdle

\* log(), lines 153-155: the callback is entered.
EnterCallback(t) ==
    /\ pc[t] = "remote"
    /\ published' = publishRemote(call[t].entry)
    /\ call' = [call EXCEPT ![t].invoked = @ + Added(published, published')]
    /\ pc' = [pc EXCEPT ![t] = IF published' # published THEN "callback" ELSE "unlock"]
    /\ UNCHANGED <<loggerVars, console, records>>
    /\ ThreadFrame

\* The callback makes its call. An inner log() below the min level returns
\* at line 141, and the callback with it; an inner log() that passes the
\* filter, and every setter, goes on to construct its lock_guard.
CallbackCalls(t, level) ==
    /\ pc[t] = "callback"
    /\ pc' = [pc EXCEPT ![t] = IF /\ publish_callback = "cb_log"
                                  /\ ~passesFilter(level, min_level)
                               THEN "unlock" ELSE "relock"]
    /\ UNCHANGED <<loggerVars, outputVars, call>>
    /\ ThreadFrame

\* std::lock_guard<std::mutex> lock(mutex_), of log() and of an inner call.
LockGuard(t) ==
    /\ pc[t] \in {"lock", "relock"}
    /\ lockAvailable(mutex)
    /\ mutex' = t
    /\ pc' = [pc EXCEPT ![t] = IF pc[t] = "lock" THEN "create" ELSE "reentered"]
    /\ UNCHANGED <<min_level, local_output, remote_output, publish_callback, seq,
                   outputVars, call>>
    /\ ThreadFrame

NextReentrant ==
    \E t \in Threads :
        \/ \E level \in ThreadLevels, message \in ApiMessages : LogCheck(t, level, message)
        \/ LockGuard(t)
        \/ LogCreateEntry(t)
        \/ LogOutputLocal(t)
        \/ EnterCallback(t)
        \/ \E level \in ThreadLevels : CallbackCalls(t, level)
        \/ LogUnlock(t)
        \/ \E level \in LogLevels : SetMinLevel(t, level)
        \/ \E enabled \in BOOLEAN : SetRemoteOutput(t, enabled)

SpecReentrant == InitReentrant /\ [][NextReentrant]_vars

\* Threads whose callback called back into the Logger and waits for the mutex.
Reentered == {t \in Threads : pc[t] = "relock"}

\* C17: a thread whose callback called log() at a level passing the filter,
\* or a setter, on the Logger that invoked it owns the mutex it waits for:
\* it cannot take it, and it waits and owns it in every later state; while
\* it does, no other thread's log() gets past its own lock_guard and no
\* other thread can run a setter.
C17_ReentrantCallDeadlocks ==
    /\ [](\A t \in Reentered :
             /\ mutex = t
             /\ ~ENABLED LockGuard(t)
             /\ \A u \in Threads \ {t} :
                   /\ pc[u] = "lock" => ~ENABLED LockGuard(u)
                   /\ \A level \in LogLevels : ~ENABLED SetMinLevel(u, level)
                   /\ \A enabled \in BOOLEAN : ~ENABLED SetRemoteOutput(u, enabled))
    /\ [][\A t \in Reentered :
             /\ pc'[t] = "relock"
             /\ mutex' = t
             /\ \A u \in Threads : pc[u] = "lock" => pc'[u] = "lock"]_vars

\* Reached: thread 1's callback made an inner log() that passed the filter
\* and waits for the mutex thread 1 owns, after an earlier invocation whose
\* inner log() was filtered and returned; thread 2's log() waits as well.
C17_Witness ==
    /\ publish_callback = "cb_log"
    /\ pc[1] = "relock" /\ mutex = 1
    /\ pc[2] = "lock"
    /\ Len(published) = 2

\* ============================================================== SpecStream
\* One thread constructs LogStream objects on one Logger, streams values into
\* them, moves them and destroys them, and changes the min level in between.

InitStream ==
    /\ LoggerInit(NullCallback)
    /\ OutputInit
    /\ ThreadsIdle
    /\ last = NoLast
    /\ StreamsIdle
    /\ MacrosIdle
    /\ GlobalIdle

StreamFrame == UNCHANGED <<threadVars, last, macroVars, globalVars>>

\* Levels streams are made at: each can pass and can be dropped.
StreamLevels == {INFO, ERROR}

\* Objects are created in the order of their ids.
NextStreamId(s) ==
    /\ streams[s].state = "unborn"
    /\ \A r \in StreamIds : r < s => streams[r].state # "unborn"

\* LogStream::LogStream(logger, level): active_(level >= logger.getMinLevel()).
constructed(level, s) ==
    [state |-> "alive", level |-> level, active |-> level >= min_level, ss |-> <<>>,
     origin |-> s]

\* Logger::stream(level) / LogStream(logger, level).
StreamConstruct(s, level) ==
    /\ NextStreamId(s)
    /\ streams' = [streams EXCEPT ![s] = constructed(level, s)]
    /\ lineage' = [lineage EXCEPT ![s] = [owner |-> s, active |-> streams'[s].active,
                                           appended |-> FALSE, logCalls |-> 0]]
    /\ UNCHANGED <<loggerVars, outputVars>>
    /\ StreamFrame

\* operator<<: "if (active_) ss_ << value;" -- ss_ afterwards.
streamed(stream, value) == IF stream.active THEN stream.ss \o value ELSE stream.ss

\* LogStream::operator<<(value), value rendered as a text.
StreamAppend(s, value) ==
    /\ streams[s].state = "alive"
    /\ Len(streams[s].ss) + Len(value) <= MaxAppends
    /\ streams' = [streams EXCEPT ![s].ss = streamed(streams[s], value)]
    /\ lineage' = [o \in StreamIds |->
                     IF lineage[o].owner = s /\ value # <<>>
                     THEN [lineage[o] EXCEPT !.appended = TRUE] ELSE lineage[o]]
    /\ UNCHANGED <<loggerVars, outputVars>>
    /\ StreamFrame

\* The move constructor's source afterwards: "other.active_ = false", its
\* ss_ in the state std::move left it in.
movedFromStillActive(stream, rest) == [stream EXCEPT !.ss = rest]
movedFrom(stream, rest) == [stream EXCEPT !.active = FALSE, !.ss = rest]

\* The move constructor's target: level_, ss_ and active_ of the source.
movedTo(stream) == stream

\* LogStream::LogStream(LogStream&& other). A moved-from ostringstream is
\* valid but unspecified: empty, or still holding its text.
StreamMove(s, d) ==
    /\ streams[s].state = "alive"
    /\ NextStreamId(d)
    /\ \E rest \in {<<>>, streams[s].ss} :
         streams' = [streams EXCEPT ![d] = movedTo(streams[s]),
                                    ![s] = movedFrom(streams[s], rest)]
    /\ lineage' = [o \in StreamIds |->
                     IF lineage[o].owner = s
                     THEN [lineage[o] EXCEPT !.owner = d] ELSE lineage[o]]
    /\ UNCHANGED <<loggerVars, outputVars>>
    /\ StreamFrame

\* ~LogStream: "if (active_ && !ss_.str().empty())" -- TRUE when it calls log().
flushes(stream) == stream.active /\ stream.ss # <<>>

\* LogStream::~LogStream().
StreamDestroy(s) ==
    /\ streams[s].state = "alive"
    /\ streams' = [streams EXCEPT ![s] = [NoStream EXCEPT !.state = "dead",
                                                          !.origin = streams[s].origin]]
    /\ IF flushes(streams[s])
       THEN /\ log(streams[s].level, streams[s].ss)
            /\ lineage' = [lineage EXCEPT ![streams[s].origin].logCalls = @ + 1]
       ELSE UNCHANGED <<seq, outputVars, lineage>>
    /\ UNCHANGED <<min_level, local_output, remote_output, publish_callback, mutex>>
    /\ StreamFrame

\* Logger::setMinLevel(level).
StreamSetMinLevel(level) ==
    /\ min_level' = level
    /\ UNCHANGED <<local_output, remote_output, publish_callback, seq, mutex,
                   outputVars, streamVars>>
    /\ StreamFrame

NextStream ==
    \/ \E s \in StreamIds, level \in StreamLevels : StreamConstruct(s, level)
    \/ \E s \in StreamIds, value \in Messages : StreamAppend(s, value)
    \/ \E s, d \in StreamIds : StreamMove(s, d)
    \/ \E s \in StreamIds : StreamDestroy(s)
    \/ \E level \in LogLevels : StreamSetMinLevel(level)

SpecStream == InitStream /\ [][NextStream]_vars

\* The constructed streams.
Lineages == {o \in StreamIds : lineage[o].owner # 0}

\* C5: a log stream followed through its moves has caused exactly one
\* Logger::log call once the object holding it is destroyed, if it was active
\* at construction and a non-empty value was streamed into it, and has caused
\* none before that, none if it was inactive or got no text, and none from a
\* moved-from object.
C5_OneFlushPerStream ==
    \A o \in Lineages :
        lineage[o].logCalls =
            IF /\ streams[lineage[o].owner].state = "dead"
               /\ lineage[o].active
               /\ lineage[o].appended
            THEN 1 ELSE 0

\* Reached: a stream moved twice, every object of it destroyed, and one
\* log() call made, whose record holds the text.
C5_Witness ==
    /\ lineage[1].owner = 3 /\ lineage[1].logCalls = 1
    /\ \A s \in {1, 2, 3} : streams[s].state = "dead" /\ streams[s].origin = 1
    /\ Len(records) = 1 /\ records[1].message # <<>>

\* The stream that object s holds, if it holds one.
Held(s) == {o \in Lineages : lineage[o].owner = s}

\* C15 as claimed: when the object holding a stream with a non-empty text is
\* destroyed, a record is made exactly when the stream was active at its
\* construction, whatever setMinLevel did in between.
C15_EmissionDecidedAtConstruction ==
    [][\A s \in StreamIds : \A o \in Held(s) :
          (streams[s].state = "alive" /\ streams'[s].state = "dead"
              /\ streams[s].ss # <<>>)
            => (Added(records, records') = 1 <=> lineage[o].active)]_vars

\* C15: when a LogStream object is destroyed, one record is made if the
\* object is active (the stream was active at construction and this object
\* holds it), its text is non-empty and its level is not below the min
\* level at that moment, and no record is made otherwise: raising the min
\* level above the stream's level before the destruction drops the message,
\* lowering it does not make an inactive stream emit.
C15_EmissionAlsoFilteredAtDestruction ==
    [][\A s \in StreamIds :
          (streams[s].state = "alive" /\ streams'[s].state = "dead")
            => Added(records, records') =
                  IF /\ streams[s].active
                     /\ streams[s].ss # <<>>
                     /\ streams[s].level >= min_level
                  THEN 1 ELSE 0]_vars

\* Reached: a stream active at construction got a text, the min level was
\* raised above its level, and its destructor's log() call made no record;
\* a stream made inactive under that level got nothing after the min level
\* was lowered again.
C15_Witness ==
    /\ lineage[1].active /\ lineage[1].appended /\ lineage[1].logCalls = 1
    /\ streams[lineage[1].owner].state = "dead"
    /\ lineage[2].owner # 0 /\ ~lineage[2].active
    /\ streams[lineage[2].owner].state = "dead"
    /\ min_level = DEBUG
    /\ records = <<>>

\* ============================================================== SpecMacros
\* One thread visits one call site of a suppression macro again and again,
\* changing the min level in between. Each visit is one action: the macro's
\* statements, the LogStream temporary they create, its destructor and the
\* log() call the destructor makes.

\* The macros' level at the call site.
MacroLevels == {WARN}
\* The n of LOG_*_EVERY_N and the interval of LOG_*_THROTTLE, in milliseconds.
EveryNs == {1, 2, 3}
Intervals == {2, 3}

InitMacros ==
    /\ LoggerInit(NullCallback)
    /\ OutputInit
    /\ ThreadsIdle
    /\ last = NoLast
    /\ StreamsIdle
    /\ \E macro \in {"once", "every_n", "changed", "throttle"}, level \in MacroLevels,
          n \in EveryNs, interval_ms \in Intervals :
         /\ site = [macro |-> macro, level |-> level,
                    n |-> IF macro = "every_n" THEN n ELSE NoSite.n,
                    interval_ms |-> IF macro = "throttle" THEN interval_ms
                                    ELSE NoSite.interval_ms]
    /\ StaticsInit
    /\ now = 0
    /\ visits = <<>>
    /\ GlobalIdle

MacroFrame == UNCHANGED <<threadVars, last, streamVars, globalVars>>

\* The statement "(logger).stream(level) << value;": a LogStream temporary
\* is constructed, value is streamed into it, and it is destroyed at the end
\* of the statement.
StreamStatement(level, value) ==
    LET made == constructed(level, 0)
        filled == [made EXCEPT !.ss = streamed(made, value)]
    IN  IF flushes(filled)
        THEN log(level, filled.ss)
        ELSE UNCHANGED <<seq, outputVars>>

\* The statement "(logger).stream(level);": nothing is streamed.
EmptyStreamStatement(level) == StreamStatement(level, <<>>)

\* What a visit adds to the history: the cond and the clock reading it saw,
\* whether its level passed the filter with a non-empty message, and whether
\* it produced a record.
Visited(cond, time, value) ==
    /\ Len(visits) < (IF site.macro = "throttle" THEN MaxThrottleVisits ELSE MaxVisits)
    /\ visits' = Append(visits,
                        [cond |-> cond, time |-> time,
                         eligible |-> site.level >= min_level /\ value # <<>>,
                         emitted |-> Len(records') > Len(records)])

LoggerConfigUnchanged ==
    UNCHANGED <<min_level, local_output, remote_output, publish_callback, mutex>>

\* LOG_ONCE_IMPL: "if (!flag && (flag = true))" -- the condition, and flag afterwards.
onceGateIgnoringFlag(flag) == TRUE
onceGate(flag) == ~flag
onceFlagNeverSet(flag) == flag
onceFlagAfter(flag) == IF ~flag THEN TRUE ELSE flag

\* LOG_*_ONCE(logger) << value;
VisitOnce(value) ==
    /\ site.macro = "once"
    /\ LOG_ONCE_FLAG' = onceFlagAfter(LOG_ONCE_FLAG)
    /\ IF onceGate(LOG_ONCE_FLAG)
       THEN StreamStatement(site.level, value)
       ELSE UNCHANGED <<seq, outputVars>>
    /\ Visited(TRUE, 0, value)
    /\ LoggerConfigUnchanged
    /\ UNCHANGED <<site, LOG_COUNTER, LOG_PREV, LOG_THROTTLE, now>>
    /\ MacroFrame

\* LOG_EVERY_N_IMPL: "if (++counter % (n) == 0)" -- counter afterwards, and
\* the condition on it.
everyNCounterAfter(counter) == counter + 1
everyNGatePostIncrement(counter, n) == counter % n = 0
everyNGate(counter, n) == everyNCounterAfter(counter) % n = 0

\* LOG_*_EVERY_N(logger, n) << value;
VisitEveryN(value) ==
    /\ site.macro = "every_n"
    /\ LOG_COUNTER' = everyNCounterAfter(LOG_COUNTER)
    /\ IF everyNGate(LOG_COUNTER, site.n)
       THEN StreamStatement(site.level, value)
       ELSE UNCHANGED <<seq, outputVars>>
    /\ Visited(TRUE, 0, value)
    /\ LoggerConfigUnchanged
    /\ UNCHANGED <<site, LOG_ONCE_FLAG, LOG_PREV, LOG_THROTTLE, now>>
    /\ MacroFrame

\* LOG_CHANGED_IMPL: "if (_curr_state && !prev_state)", written twice: before
\* and after "prev_state = _curr_state;".
changedGate(curr_state, prev_state) == curr_state /\ ~prev_state

\* LOG_*_CHANGED(logger, cond) followed by the statement streaming value.
\* The first "if" guards "(logger).stream(level);", a stream nothing is
\* streamed into; then prev_state is assigned; the second "if", evaluated on
\* the assigned prev_state, guards what follows the macro. The first
\* statement leaves the Logger as it is whenever it runs (its stream is
\* empty), so the visit's effect is that of the second.
VisitChanged(cond, value) ==
    /\ site.macro = "changed"
    /\ LOG_PREV' = cond
    /\ IF changedGate(cond, LOG_PREV')
       THEN StreamStatement(site.level, value)
       ELSE IF changedGate(cond, LOG_PREV)
            THEN EmptyStreamStatement(site.level)
            ELSE UNCHANGED <<seq, outputVars>>
    /\ Visited(cond, 0, value)
    /\ LoggerConfigUnchanged
    /\ UNCHANGED <<site, LOG_ONCE_FLAG, LOG_COUNTER, LOG_THROTTLE, now>>
    /\ MacroFrame

\* LOG_THROTTLE_IMPL: "static auto last_time = now() - milliseconds(interval_ms);"
\* runs on the first visit only.
throttleSeeded(throttle, clock, interval_ms) ==
    IF throttle.seeded THEN throttle
    ELSE [seeded |-> TRUE, last_time |-> clock - interval_ms]

\* LOG_THROTTLE_IMPL: "if (duration_cast<milliseconds>(_now - last_time).count()
\* >= interval_ms)".
throttleGateStrict(_now, last_time, interval_ms) == _now - last_time > interval_ms
throttleGate(_now, last_time, interval_ms) == _now - last_time >= interval_ms

\* LOG_*_THROTTLE(logger, ms) << value; LOG_THROTTLE_END
\* The clock is read for the static's initialiser and again for _now; it may
\* tick in between.
VisitThrottle(value) ==
    /\ site.macro = "throttle"
    /\ \E _now \in {now, now + 1} :
         LET seeded == throttleSeeded(LOG_THROTTLE, now, site.interval_ms) IN
         /\ _now <= MaxTime
         /\ now' = _now
         /\ IF throttleGate(_now, seeded.last_time, site.interval_ms)
            THEN /\ LOG_THROTTLE' = [seeded EXCEPT !.last_time = _now]
                 /\ StreamStatement(site.level, value)
            ELSE /\ LOG_THROTTLE' = seeded
                 /\ UNCHANGED <<seq, outputVars>>
         /\ Visited(TRUE, _now, value)
    /\ LoggerConfigUnchanged
    /\ UNCHANGED <<site, LOG_ONCE_FLAG, LOG_COUNTER, LOG_PREV>>
    /\ MacroFrame

\* std::chrono::steady_clock advances. Only the throttle macro reads it.
MacroTick ==
    /\ site.macro = "throttle"
    /\ now < MaxTime
    /\ now' = now + 1
    /\ UNCHANGED <<loggerVars, outputVars, site, LOG_ONCE_FLAG, LOG_COUNTER, LOG_PREV,
                   LOG_THROTTLE, visits>>
    /\ MacroFrame

\* Logger::setMinLevel(level).
MacroSetMinLevel(level) ==
    /\ min_level' = level
    /\ UNCHANGED <<local_output, remote_output, publish_callback, seq, mutex,
                   outputVars, macroVars>>
    /\ MacroFrame

NextMacros ==
    \/ \E value \in Messages : VisitOnce(value)
    \/ \E value \in Messages : VisitEveryN(value)
    \/ \E cond \in BOOLEAN, value \in Messages : VisitChanged(cond, value)
    \/ \E value \in Messages : VisitThrottle(value)
    \/ MacroTick
    \/ \E level \in LogLevels : MacroSetMinLevel(level)

SpecMacros == InitMacros /\ [][NextMacros]_vars

\* Every visit so far had a level passing the filter and a non-empty message.
AllEligible == \A k \in 1..Len(visits) : visits[k].eligible

\* The visits that produced a record.
Emitting == {k \in 1..Len(visits) : visits[k].emitted}

\* C6: at a LOG_*_ONCE call site whose every visit has a level passing the
\* filter and a non-empty message, the first visit produces a record and no
\* later visit does, so exactly one record exists after any K >= 1 visits.
C6_OnceFirstVisitOnly ==
    (site.macro = "once" /\ AllEligible /\ visits # <<>>)
        => Emitting = {1} /\ Len(records) = 1

\* Reached: MaxVisits eligible visits to the once site, one record.
C6_Witness ==
    /\ site.macro = "once" /\ AllEligible /\ Len(visits) = MaxVisits
    /\ Emitting = {1} /\ Len(records) = 1

\* C7: at a LOG_*_EVERY_N call site with n >= 1 the counter advances by one
\* on every visit, and the k-th visit, when its level passes the filter and
\* its message is not empty, produces a record if and only if k is a
\* multiple of n.
C7_EveryNth ==
    site.macro = "every_n"
        => /\ LOG_COUNTER = Len(visits)
           /\ \A k \in 1..Len(visits) :
                 visits[k].eligible => (visits[k].emitted <=> k % site.n = 0)

\* Reached: n = 3, six eligible visits, records from visits 3 and 6 only.
C7_Witness ==
    /\ site.macro = "every_n" /\ site.n = 3
    /\ AllEligible /\ Len(visits) = 6
    /\ Emitting = {3, 6} /\ Len(records) = 2

\* C8: at a LOG_*_CHANGED call site whose every visit has a level passing
\* the filter and a non-empty message, a visit produces a record if and only
\* if cond is true on it and was false on the visit before (or it is the
\* first visit).
C8_ChangedEmitsOnRisingEdge ==
    (site.macro = "changed" /\ AllEligible)
        => \A k \in 1..Len(visits) :
              visits[k].emitted <=>
                  (visits[k].cond /\ (k = 1 \/ ~visits[k - 1].cond))

\* The last visit before visit k that produced a record.
LastEmitBefore(k) ==
    CHOOSE j \in Emitting : j < k /\ \A i \in Emitting : i < k => i <= j

\* C9: at a LOG_*_THROTTLE call site whose every visit has a level passing
\* the filter and a non-empty message, under a non-decreasing millisecond
\* clock, the first visit produces a record, a later visit produces one if
\* and only if at least interval_ms passed since the last visit that did,
\* and any two records are at least interval_ms apart.
C9_ThrottleInterval ==
    (site.macro = "throttle" /\ AllEligible /\ visits # <<>>)
        => /\ visits[1].emitted
           /\ \A k \in 2..Len(visits) :
                 visits[k].emitted <=>
                     visits[k].time - visits[LastEmitBefore(k)].time >= site.interval_ms
           /\ \A j, k \in Emitting :
                 j < k => visits[k].time - visits[j].time >= site.interval_ms

\* Reached: interval 2; visits at 0, at +1 (half the interval) and at +3
\* (one and a half intervals): records from the first and the third only.
C9_Witness ==
    /\ site.macro = "throttle" /\ site.interval_ms = 2
    /\ AllEligible /\ Len(visits) = 3
    /\ visits[1].time = 0 /\ visits[2].time = 1 /\ visits[3].time = 3
    /\ Emitting = {1, 3}

\* ============================================================ SpecFiltered
\* The once and the throttle call site of SpecMacros visited with a
\* non-empty message only, so that a visit is not eligible exactly when the
\* macro's level is below the min level at that visit.
InitFiltered ==
    /\ InitMacros
    /\ site.macro \in {"once", "throttle"}

NextFiltered ==
    \/ VisitOnce(<<"m">>)
    \/ VisitThrottle(<<"m">>)
    \/ MacroTick
    \/ \E level \in LogLevels : MacroSetMinLevel(level)

SpecFiltered == InitFiltered /\ [][NextFiltered]_vars

\* C19: at a LOG_*_ONCE call site whose first visit found the macro's level
\* below the min level, the flag is set and no visit, the first or a later
\* one, has produced a record, whatever the min level was set to since; and
\* a LOG_*_THROTTLE visit that finds the interval elapsed while its level is
\* below the min level sets last_time to its clock reading and produces no
\* record.
C19_GateConsumedWhenFiltered ==
    /\ []((site.macro = "once" /\ visits # <<>> /\ ~visits[1].eligible)
            => LOG_ONCE_FLAG /\ Emitting = {} /\ records = <<>>)
    /\ [][(/\ site.macro = "throttle"
           /\ Len(visits') > Len(visits)
           /\ site.level < min_level
           /\ now' - (IF LOG_THROTTLE.seeded THEN LOG_THROTTLE.last_time
                      ELSE now - site.interval_ms) >= site.interval_ms)
            => /\ LOG_THROTTLE'.seeded
               /\ LOG_THROTTLE'.last_time = now'
               /\ records' = records]_vars

\* Reached: the once site first visited under a min level above its level,
\* then visited twice with the level passing, the min level back at DEBUG:
\* the flag is set and there is no record.
C19_Witness ==
    /\ site.macro = "once" /\ Len(visits) = 3
    /\ ~visits[1].eligible /\ visits[2].eligible /\ visits[3].eligible
    /\ min_level = DEBUG
    /\ LOG_ONCE_FLAG /\ records = <<>>

\* ============================================================ SpecOnceRace
\* The threads visit one LOG_*_ONCE call site, at a level that passes the
\* filter and with a non-empty message. "static bool flag" is a plain bool:
\* "!flag" and "flag = true" are a load and a store that other threads'
\* loads and stores may come between, and each load yields what the last
\* store before it wrote.
InitOnceRace ==
    /\ LoggerInit(NullCallback)
    /\ OutputInit
    /\ ThreadsIdle
    /\ last = NoLast
    /\ StreamsIdle
    /\ \E level \in MacroLevels :
          site = [NoSite EXCEPT !.macro = "once", !.level = level]
    /\ StaticsInit
    /\ now = 0
    /\ visits = <<>>
    /\ GlobalIdle

RaceFrame == UNCHANGED <<call, last, streamVars, globalVars, site, LOG_COUNTER,
                         LOG_PREV, LOG_THROTTLE, now, mutex, local_output,
                         remote_output, publish_callback>>

\* Threads between the load of the flag and the end of the statement.
Visiting == {t \in Threads : pc[t] \in {"flag_write", "stream"}}

\* "!flag": the load. A thread that finds the flag set is done.
OnceRead(t) ==
    /\ pc[t] = "idle"
    /\ Len(visits) + Cardinality(Visiting) < MaxVisits
    /\ IF onceGate(LOG_ONCE_FLAG)
       THEN /\ pc' = [pc EXCEPT ![t] = "flag_write"]
            /\ UNCHANGED visits
       ELSE /\ UNCHANGED pc
            /\ visits' = Append(visits, [cond |-> TRUE, time |-> 0,
                                         eligible |-> site.level >= min_level,
                                         emitted |-> FALSE])
    /\ UNCHANGED <<LOG_ONCE_FLAG, min_level, seq, outputVars>>
    /\ RaceFrame

\* "(flag = true)": the store.
OnceWrite(t) ==
    /\ pc[t] = "flag_write"
    /\ LOG_ONCE_FLAG' = onceFlagAfter(FALSE)
    /\ pc' = [pc EXCEPT ![t] = "stream"]
    /\ UNCHANGED <<visits, min_level, seq, outputVars>>
    /\ RaceFrame

\* "(logger).stream(level) << value;" -- the log() call its destructor
\* makes runs under the Logger's mutex, one thread at a time.
OnceStream(t, value) ==
    /\ pc[t] = "stream"
    /\ StreamStatement(site.level, value)
    /\ visits' = Append(visits, [cond |-> TRUE, time |-> 0,
                                 eligible |-> site.level >= min_level /\ value # <<>>,
                                 emitted |-> Len(records') > Len(records)])
    /\ pc' = [pc EXCEPT ![t] = "idle"]
    /\ UNCHANGED <<LOG_ONCE_FLAG, min_level>>
    /\ RaceFrame

\* Logger::setMinLevel(level), to a level the site's level passes.
OnceSetMinLevel(level) ==
    /\ level <= site.level
    /\ min_level' = level
    /\ UNCHANGED <<pc, visits, LOG_ONCE_FLAG, seq, outputVars>>
    /\ RaceFrame

NextOnceRace ==
    \/ \E t \in Threads : OnceRead(t)
    \/ \E t \in Threads : OnceWrite(t)
    \/ \E t \in Threads : OnceStream(t, <<"m">>)
    \/ \E level \in LogLevels : OnceSetMinLevel(level)

SpecOnceRace == InitOnceRace /\ [][NextOnceRace]_vars

\* C18: with the threads visiting one LOG_*_ONCE call site, every visit at a
\* passing level with a non-empty message, once a visit has ended and no
\* thread is inside one, at least one record exists; each thread emits at
\* most once, so never more records than threads; and a thread inside a
\* visit emits whatever the flag says by then.
C18_OnceRaceEmitsOneOrTwo ==
    /\ AllEligible
    /\ (visits # <<>> /\ Visiting = {}) => Len(records) >= 1
    /\ Len(records) + Cardinality(Visiting) <= Cardinality(Threads)
    /\ Cardinality(Emitting) = Len(records)
    /\ \A t \in Threads : pc[t] = "stream" => ENABLED OnceStream(t, <<"m">>)

\* Reached: both threads loaded the flag as false before either stored it,
\* and both emitted: two records from the one site, and later visits none.
C18_Witness ==
    /\ Len(records) = 2 /\ Emitting = {1, 2}
    /\ Len(visits) = MaxVisits
    /\ Visiting = {}

\* ============================================================== SpecGlobal
\* Threads using the process-wide Logger: GlobalLogger::instance(), a
\* LogStream or a setter on the reference it returned, and
\* GlobalLogger::init(). instance(), init() and isInitialized() each run
\* under GlobalLogger::mutex_ and are one step; the reference instance()
\* returns is used after that lock is released.
\* The init calls made: one without and one with a publish callback.
InitArgs == {[node_name |-> "a", callback |-> NullCallback],
             [node_name |-> "b", callback |-> "cb"]}
GlobalLevels == {INFO}
GlobalMinLevels == {WARN}

InitGlobal ==
    /\ LoggerInit(NullCallback)
    /\ OutputInit
    /\ ThreadsIdle
    /\ last = NoLast
    /\ StreamsIdle
    /\ MacrosIdle
    /\ GlobalIdle

GlobalFrame == UNCHANGED <<loggerVars, threadVars, last, streamVars, macroVars>>

\* Logger::Logger(node_name, publish_callback): the member initialisers.
newLogger(node_name, callback) ==
    [state |-> "alive", node_name |-> node_name, min_level |-> DEBUG,
     local_output |-> TRUE, remote_output |-> (callback # NullCallback),
     publish_callback |-> callback, seq |-> 0]

\* std::make_unique<Logger>: storage that holds no Logger, past or present.
FreeLoggers == {id \in LoggerIds : loggers[id].state = "free"}
FreshLogger == CHOOSE id \in FreeLoggers : \A j \in FreeLoggers : id <= j

\* ~Logger: the storage is no Logger any more and what it holds is not
\* specified.
DestroyedLogger == [NoLogger EXCEPT !.state = "destroyed"]

\* "logger_ = std::make_unique<Logger>(...)": the new Logger is made first,
\* then the unique_ptr takes it and deletes the Logger it held.
assigned(id, made) ==
    [j \in LoggerIds |->
        IF j = id THEN made
        ELSE IF j = logger_ THEN DestroyedLogger
        ELSE loggers[j]]

\* instance(): "if (!logger_)".
instanceCreatesUntilInit == ~initialized_
instanceCreates == logger_ = NullLogger

\* GlobalLogger::instance(): returns *logger_, after making the default
\* Logger if there is none.
GlobalInstance(t) ==
    /\ glog[t].pc = "idle"
    /\ IF instanceCreates
       THEN /\ FreeLoggers # {}
            /\ loggers' = assigned(FreshLogger, newLogger("default", NullCallback))
            /\ logger_' = FreshLogger
       ELSE UNCHANGED <<loggers, logger_>>
    /\ glog' = [glog EXCEPT ![t] = [NoHold EXCEPT !.pc = "ref", !.ref = logger_']]
    /\ UNCHANGED <<initialized_, inits, danglingUse, outputVars>>
    /\ GlobalFrame

\* init(): the Logger it installs.
initLoggerKeepingConfig(node_name, callback) ==
    IF logger_ = NullLogger
    THEN newLogger(node_name, callback)
    ELSE [loggers[logger_] EXCEPT !.node_name = node_name,
                                  !.publish_callback = callback,
                                  !.remote_output = (callback # NullCallback)]
initLogger(node_name, callback) == newLogger(node_name, callback)

\* GlobalLogger::init(node_name, publish_callback), by any thread at any time.
GlobalInit(node_name, callback) ==
    /\ Len(inits) < MaxInits
    /\ FreeLoggers # {}
    /\ loggers' = assigned(FreshLogger, initLogger(node_name, callback))
    /\ logger_' = FreshLogger
    /\ initialized_' = TRUE
    /\ inits' = Append(inits, [node_name |-> node_name, callback |-> callback])
    /\ UNCHANGED <<glog, danglingUse, outputVars>>
    /\ GlobalFrame

\* GlobalLogger::isInitialized().
isInitialized == initialized_

\* getMinLevel() or log() entered through reference id: on a destroyed
\* Logger the call is recorded.
usedThrough(id, method) ==
    IF loggers[id].state = "destroyed" THEN danglingUse \cup {method} ELSE danglingUse

\* A store to a field through reference id; a store into the storage of a
\* destroyed Logger changes no Logger.
stored(id, updated) ==
    IF loggers[id].state = "destroyed" THEN loggers
    ELSE [loggers EXCEPT ![id] = updated]

\* setMinLevel / setLocalOutput through the reference.
GlobalSetMinLevel(t, level) ==
    /\ glog[t].pc = "ref"
    /\ loggers' = stored(glog[t].ref, [loggers[glog[t].ref] EXCEPT !.min_level = level])
    /\ glog' = [glog EXCEPT ![t] = NoHold]
    /\ UNCHANGED <<logger_, initialized_, inits, danglingUse, outputVars>>
    /\ GlobalFrame

GlobalSetLocalOutput(t, enabled) ==
    /\ glog[t].pc = "ref"
    /\ loggers' = stored(glog[t].ref, [loggers[glog[t].ref] EXCEPT !.local_output = enabled])
    /\ glog' = [glog EXCEPT ![t] = NoHold]
    /\ UNCHANGED <<logger_, initialized_, inits, danglingUse, outputVars>>
    /\ GlobalFrame

\* Streams constructed and not yet destroyed.
Streaming == {t \in Threads : glog[t].pc = "stream"}

\* GLOG_*: instance().stream(level) -- LogStream's constructor reads
\* logger.getMinLevel() through the reference. Read from a destroyed Logger,
\* the level is whatever the storage holds by then: either result.
GlobalStream(t, level) ==
    /\ glog[t].pc = "ref"
    /\ Len(records) + Cardinality(Streaming) < MaxGlobalCalls
    /\ \E active \in BOOLEAN :
          /\ loggers[glog[t].ref].state # "destroyed"
                => active = (level >= loggers[glog[t].ref].min_level)
          /\ glog' = [glog EXCEPT ![t].pc = "stream", ![t].level = level,
                                  ![t].active = active]
    /\ danglingUse' = usedThrough(glog[t].ref, "getMinLevel")
    /\ UNCHANGED <<loggers, logger_, initialized_, inits, outputVars>>
    /\ GlobalFrame

\* What log() may read through a reference to a destroyed Logger: any
\* min_level_, flags and counter.
DanglingReads ==
    [state : {"destroyed"}, node_name : {""}, min_level : {DEBUG, FATAL},
     local_output : BOOLEAN, remote_output : {FALSE},
     publish_callback : {NullCallback}, seq : {0, MaxGlobalCalls}]

\* Logger::log on the Logger at id reading its fields as L, as
\* log(level, message) above.
heapLog(id, L, level, message) ==
    LET entry == [seq |-> L.seq, level |-> toProtoLevel(level), message |-> message]
    IN  IF ~passesFilter(level, L.min_level)
        THEN UNCHANGED <<loggers, outputVars>>
        ELSE /\ loggers' = stored(id, [L EXCEPT !.seq = nextSeq(L.seq)])
             /\ records' = Append(records, entry)
             /\ console' = IF L.local_output THEN Append(console, entry) ELSE console
             /\ published' = IF L.remote_output /\ L.publish_callback # NullCallback
                             THEN Append(published, entry) ELSE published

\* ~LogStream at the end of the GLOG_* statement, a value having been
\* streamed: logger_.log(level_, ss_.str()) when active. On a destroyed
\* Logger log() runs on whatever the storage reads as.
GlobalStreamDestroy(t) ==
    /\ glog[t].pc = "stream"
    /\ IF ~glog[t].active
       THEN UNCHANGED <<loggers, outputVars, danglingUse>>
       ELSE /\ danglingUse' = usedThrough(glog[t].ref, "log")
            /\ IF loggers[glog[t].ref].state = "destroyed"
               THEN \E L \in DanglingReads :
                       heapLog(glog[t].ref, L, glog[t].level, <<"m">>)
               ELSE heapLog(glog[t].ref, loggers[glog[t].ref], glog[t].level, <<"m">>)
    /\ glog' = [glog EXCEPT ![t] = NoHold]
    /\ UNCHANGED <<logger_, initialized_, inits>>
    /\ GlobalFrame

NextGlobal ==
    \/ \E t \in Threads : GlobalInstance(t)
    \/ \E args \in InitArgs : GlobalInit(args.node_name, args.callback)
    \/ \E t \in Threads, level \in GlobalMinLevels : GlobalSetMinLevel(t, level)
    \/ \E t \in Threads : GlobalSetLocalOutput(t, FALSE)
    \/ \E t \in Threads, level \in GlobalLevels : GlobalStream(t, level)
    \/ \E t \in Threads : GlobalStreamDestroy(t)

SpecGlobal == InitGlobal /\ [][NextGlobal]_vars

\* The Logger instance() would return now.
Instance == loggers[logger_]

\* C12: the Logger GlobalLogger::init(node_name, callback) installs has that
\* node name, min level DEBUG, local output on, remote output on exactly when
\* the callback is non-null and sequence counter 0, whatever the Logger it
\* replaces was set to; and after init calls instance() is a Logger with the
\* node name of the last of them.
C12_InitReplacesInstance ==
    /\ [](inits # <<>>
            => /\ logger_ # NullLogger
               /\ Instance.state = "alive"
               /\ Instance.node_name = inits[Len(inits)].node_name)
    /\ [][Len(inits') > Len(inits)
            => LET fresh == loggers'[logger_']
                   given == inits'[Len(inits')]
               IN  /\ fresh.node_name = given.node_name
                   /\ fresh.min_level = DEBUG
                   /\ fresh.local_output
                   /\ fresh.remote_output = (given.callback # NullCallback)
                   /\ fresh.publish_callback = given.callback
                   /\ fresh.seq = 0]_vars

\* Reached: init("a"), local output turned off on the instance and records
\* made on it, counter advanced, then init("b", cb): the instance is "b"
\* with the defaults, local output on again, remote output on, counter 0.
C12_Witness ==
    /\ Len(inits) = 2
    /\ inits[1].node_name = "a" /\ inits[2].node_name = "b"
    /\ inits[1].callback = NullCallback /\ inits[2].callback # NullCallback
    /\ Len(records) = MaxGlobalCalls /\ console = <<>> /\ danglingUse = {}
    /\ Instance.node_name = "b" /\ Instance.min_level = DEBUG
    /\ Instance.local_output /\ Instance.remote_output /\ Instance.seq = 0

\* C13: instance() returns a Logger that is alive as it returns; if init
\* was never called and there is no Logger yet it makes one named "default"
\* with local output on and remote output off, and otherwise returns the
\* Logger already installed, making none; it never changes isInitialized(),
\* which is true exactly when init has been called.
C13_InstanceNeverNull ==
    /\ [](isInitialized <=> inits # <<>>)
    /\ [][\A t \in Threads :
            (glog[t].pc = "idle" /\ glog'[t].pc = "ref")
                => /\ glog'[t].ref = logger_'
                   /\ logger_' # NullLogger
                   /\ loggers'[logger_'].state = "alive"
                   /\ isInitialized' = isInitialized
                   /\ logger_ # NullLogger
                        => (logger_' = logger_ /\ loggers' = loggers)
                   /\ logger_ = NullLogger
                        => /\ inits = <<>>
                           /\ loggers'[logger_'].node_name = "default"
                           /\ loggers'[logger_'].local_output
                           /\ ~loggers'[logger_'].remote_output]_vars

\* Reached: init never called, both threads hold the reference instance()
\* gave them, it is the one default Logger, which already made a record,
\* and isInitialized() is false.
C13_Witness ==
    /\ inits = <<>> /\ ~isInitialized
    /\ \A t \in Threads : glog[t].pc = "ref" /\ glog[t].ref = logger_
    /\ Instance.node_name = "default" /\ Instance.seq = 1
    /\ Cardinality({id \in LoggerIds : loggers[id].state # "free"}) = 1

\* C20: neither getMinLevel() nor log() ever runs, through a reference or
\* a stream obtained from instance(), on a Logger that init() destroyed.
C20_NoUseAfterInit ==
    danglingUse \cap {"getMinLevel", "log"} = {}

====
